---- MODULE Spec2Model ----
(***************************************************************************)
(* Model of src/app.py: the SECOP filter-to-query compiler                 *)
(* (build_where_and_order), the interactive handler (home), the export     *)
(* handler (export_xlsx) and the row-to-spreadsheet projection.            *)
(*                                                                         *)
(* Python strings that the code splits, escapes or interpolates are        *)
(* sequences of one-character strings.  An Optional value is None == <<>>  *)
(* or Some(v) == <<v>>.                                                    *)
(***************************************************************************)
EXTENDS Integers, Sequences, FiniteSets, TLC

VARIABLES mode, pc, req, where_clause, order_clause, fetches, responses,
          rows, result

vars == <<mode, pc, req, where_clause, order_clause, fetches, responses,
          rows, result>>

(***************************************************************************)
(* Bounds of the model.                                                    *)
(***************************************************************************)
\* total number of characters of codigos, estado and texto enumerated
\* exhaustively for the filter compiler
MaxTotal == 4
\* number of rows in a response body
MaxRows == 2
\* largest page number requested
MaxPage == 2
\* number of fields a row of the exhaustive projector inputs carries
MaxPresent == 2

(***************************************************************************)
(* Optional values and Python truthiness.                                  *)
(***************************************************************************)
None == <<>>

Some(v) == <<v>>

\* `if x:` for x: str | None
Truthy(o) == o # None /\ o[1] # <<>>

(***************************************************************************)
(* Python string primitives used by the code.                              *)
(***************************************************************************)
Whitespace == {" ", "\t", "\n"}

Lower == <<"a", "b", "c", "d", "e", "f", "g", "h", "i", "j", "k", "l", "m",
           "n", "o", "p", "q", "r", "s", "t", "u", "v", "w", "x", "y", "z">>

Capital == <<"A", "B", "C", "D", "E", "F", "G", "H", "I", "J", "K", "L", "M",
             "N", "O", "P", "Q", "R", "S", "T", "U", "V", "W", "X", "Y", "Z">>

\* str.upper(), one character
UpperChar(c) ==
    IF \E i \in 1..Len(Lower) : Lower[i] = c
    THEN Capital[CHOOSE i \in 1..Len(Lower) : Lower[i] = c]
    ELSE c

\* str.upper()
upper(s) == [i \in 1..Len(s) |-> UpperChar(s[i])]

\* index of the first element of s in set D, 0 when there is none
FirstIn(s, D) ==
    IF \E i \in 1..Len(s) : s[i] \in D
    THEN CHOOSE i \in 1..Len(s) : s[i] \in D /\ \A j \in 1..(i-1) : s[j] \notin D
    ELSE 0

\* index of the first element of s not in set D, Len(s)+1 when there is none
FirstNotIn(s, D) ==
    IF \E i \in 1..Len(s) : s[i] \notin D
    THEN CHOOSE i \in 1..Len(s) : s[i] \notin D /\ \A j \in 1..(i-1) : s[j] \in D
    ELSE Len(s) + 1

RECURSIVE split(_, _)
\* str.split(sep) for a one-character separator: empty pieces are kept
split(s, sep) ==
    LET i == FirstIn(s, {sep})
    IN IF i = 0 THEN <<s>>
       ELSE <<SubSeq(s, 1, i - 1)>> \o split(SubSeq(s, i + 1, Len(s)), sep)

RECURSIVE re_split(_, _)
\* re.split(r"[D]+", s): split at maximal runs of characters of D
re_split(s, D) ==
    LET i == FirstIn(s, D)
    IN IF i = 0 THEN <<s>>
       ELSE LET rest == SubSeq(s, i, Len(s))
                j == FirstNotIn(rest, D)
            IN <<SubSeq(s, 1, i - 1)>> \o re_split(SubSeq(rest, j, Len(rest)), D)

RECURSIVE lstrip(_)
lstrip(s) == IF s # <<>> /\ Head(s) \in Whitespace THEN lstrip(Tail(s)) ELSE s

RECURSIVE rstrip(_)
rstrip(s) ==
    IF s # <<>> /\ s[Len(s)] \in Whitespace
    THEN rstrip(SubSeq(s, 1, Len(s) - 1)) ELSE s

\* str.strip()
strip(s) == rstrip(lstrip(s))

\* str.startswith(p)
startswith(s, p) == Len(s) >= Len(p) /\ SubSeq(s, 1, Len(p)) = p

RECURSIVE replace(_, _, _)
\* str.replace(old, new), old non-empty: left to right, non-overlapping
replace(s, old, new) ==
    IF Len(s) < Len(old) THEN s
    ELSE IF startswith(s, old)
         THEN new \o replace(SubSeq(s, Len(old) + 1, Len(s)), old, new)
         ELSE <<Head(s)>> \o replace(Tail(s), old, new)

RECURSIVE join(_, _)
\* sep.join(parts)
join(sep, parts) ==
    IF parts = <<>> THEN <<>>
    ELSE IF Len(parts) = 1 THEN parts[1]
    ELSE parts[1] \o sep \o join(sep, Tail(parts))

\* [f(x) for x in xs]
Map(f(_), xs) == [i \in 1..Len(xs) |-> f(xs[i])]

NonEmpty(s) == s # <<>>

(***************************************************************************)
(* Escaping primitives.                                                    *)
(***************************************************************************)
\* a slip that forgets to double the quote
soql_escape_identity(v) == v

soql_escape(v) == replace(v, <<"'">>, <<"'", "'">>)

sanitize_like_term(v) == soql_escape(replace(replace(v, <<"%">>, <<>>), <<"_">>, <<>>))

(***************************************************************************)
(* Fragments of the query language written by the code.                    *)
(***************************************************************************)
V1 == <<"V", "1", ".">>

CategoryHead == <<"c", "o", "d", "i", "g", "o", "_", "p", "r", "i", "n", "c", "i", "p", "a", "l", "_", "d", "e", "_", "c", "a", "t", "e", "g", "o", "r", "i", "a", " ", "I", "N", " ", "(">>

StatusHead == <<"U", "P", "P", "E", "R", "(", "e", "s", "t", "a", "d", "o", "_", "d", "e", "l", "_", "p", "r", "o", "c", "e", "d", "i", "m", "i", "e", "n", "t", "o", ")", " ", "I", "N", " ", "(">>

LikeHead == <<"U", "P", "P", "E", "R", "(", "d", "e", "s", "c", "r", "i", "p", "c", "i", "_", "n", "_", "d", "e", "l", "_", "p", "r", "o", "c", "e", "d", "i", "m", "i", "e", "n", "t", "o", ")", " ", "L", "I", "K", "E", " ">>

AndSep == <<" ", "A", "N", "D", " ">>

OrSep == <<" ", "O", "R", " ">>

CommaSep == <<",", " ">>

\* f"'{c}'"
Quoted(c) == <<"'">> \o c \o <<"'">>

(***************************************************************************)
(* build_where_and_order                                                   *)
(***************************************************************************)
\* a slip that keeps the empty slots of the comma-separated list
KeepSlot_all(c) == TRUE

\* `if not c: continue` on the stripped slot
KeepSlot(c) == c # <<>>

\* `if not c.startswith("V1."): c = f"V1.{c}"`
NormalizeCode(c) == IF startswith(c, V1) THEN c ELSE V1 \o c

\* lista_codigos
CodeLiteral(c) == soql_escape(NormalizeCode(c))

lista_codigos(codigos) ==
    Map(CodeLiteral, SelectSeq(Map(strip, split(codigos, ",")), KeepSlot))

\* estados_upper
StatusLiteral(e) == soql_escape(upper(e))

estados_upper(estado) ==
    Map(StatusLiteral, SelectSeq(Map(strip, split(estado, ",")), NonEmpty))

\* terms
terms(texto) == SelectSeq(re_split(texto, {","} \cup Whitespace), NonEmpty)

\* one element of term_clauses; fields has the single element
\* descripci_n_del_procedimiento, so the OR-join has one operand
TermClause(t) ==
    LET t_clean == upper(sanitize_like_term(t))
        ors == << LikeHead \o <<"'", "%">> \o t_clean \o <<"%", "'">> >>
    IN <<"(">> \o join(OrSep, ors) \o <<")">>

\* the list condiciones after the three blocks
condiciones(codigos, estado, texto) ==
    (IF Truthy(codigos) /\ lista_codigos(codigos[1]) # <<>>
     THEN << CategoryHead \o join(CommaSep, Map(Quoted, lista_codigos(codigos[1]))) \o <<")">> >>
     ELSE <<>>)
    \o
    (IF Truthy(estado) /\ estados_upper(estado[1]) # <<>>
     THEN << StatusHead \o join(CommaSep, Map(Quoted, estados_upper(estado[1]))) \o <<")">> >>
     ELSE <<>>)
    \o
    (IF Truthy(texto) /\ terms(texto[1]) # <<>>
     THEN << join(AndSep, Map(TermClause, terms(texto[1]))) >>
     ELSE <<>>)

OrderKeys == {"recientes", "antiguos", "mayor_valor", "menor_valor"}

order_map ==
    [k \in OrderKeys |->
        CASE k = "recientes"   -> "fecha_de_publicacion_del DESC"
          [] k = "antiguos"    -> "fecha_de_publicacion_del ASC"
          [] k = "mayor_valor" -> "precio_base DESC, valor_estimado DESC"
          [] k = "menor_valor" -> "precio_base ASC, valor_estimado ASC"]

build_where_and_order(codigos, estado, texto, orden) ==
    LET conds == condiciones(codigos, estado, texto)
    IN [where |-> IF conds # <<>> THEN Some(join(AndSep, conds)) ELSE None,
        order |-> IF orden \in OrderKeys THEN order_map[orden]
                  ELSE order_map["recientes"]]


(***************************************************************************)
(* Loosely typed JSON values of a ResultRow.  r.get(key) is None both for  *)
(* a missing key and for a null; s is the text of a string or str() of a   *)
(* list or dict, n the number or the number of elements.                   *)
(***************************************************************************)
Absent == [k |-> "none", s |-> <<>>, n |-> 0]

Str(s) == [k |-> "str", s |-> s, n |-> 0]

Num(n) == [k |-> "num", s |-> <<>>, n |-> n]

EmptyList == [k |-> "list", s |-> <<"[", "]">>, n |-> 0]

OneList == [k |-> "list", s |-> <<"[", "5", "]">>, n |-> 1]

EmptyDict == [k |-> "dict", s |-> <<"{", "}">>, n |-> 0]

OneDict == [k |-> "dict", s |-> <<"{", "'", "k", "'", ":", " ", "5", "}">>, n |-> 1]

\* the value of an expression whose evaluation raised
Fault == [k |-> "fault", s |-> <<>>, n |-> 0]

NA == <<"N", "/", "A">>

Digits == <<"0", "1", "2", "3", "4", "5", "6", "7", "8", "9">>

\* truth value of a Python object
IsTruthy(v) ==
    CASE v.k = "none" -> FALSE
      [] v.k = "str"  -> v.s # <<>>
      [] v.k = "num"  -> v.n # 0
      [] v.k \in {"list", "dict"} -> v.n # 0
      [] OTHER -> FALSE

\* `a or b`
PyOr(a, b) == IF IsTruthy(a) THEN a ELSE b

\* str(v), as an f-string formats v
PyStr(v) ==
    CASE v.k = "str" -> v.s
      [] v.k = "num" -> <<Digits[v.n + 1]>>
      [] v.k = "none" -> <<"N", "o", "n", "e">>
      [] OTHER -> v.s

FieldNames ==
    {"codigo_principal_de_categoria", "referencia_del_proceso",
     "estado_del_procedimiento", "entidad", "departamento_entidad",
     "descripci_n_del_procedimiento", "precio_base", "valor_estimado",
     "fecha_de_publicacion_del"}

_to_cell(v) ==
    IF v.k = "none" THEN Str(<<>>)
    ELSE IF v.k \in {"list", "dict"} THEN Str(v.s)
    ELSE v

\* (r.get("codigo_principal_de_categoria") or "").replace("V1.", "")
codigo(r) ==
    LET c == PyOr(r["codigo_principal_de_categoria"], Str(<<>>))
    IN IF c.k = "str" THEN Str(replace(c.s, V1, <<>>)) ELSE Fault

referencia(r) == PyOr(r["referencia_del_proceso"], Str(NA))

codigo_full(r) ==
    IF codigo(r) = Fault THEN Fault
    ELSE IF IsTruthy(codigo(r)) \/ IsTruthy(referencia(r))
    THEN Str(codigo(r).s \o <<" ", "/", " ">> \o PyStr(referencia(r)))
    ELSE Str(NA)

valor(r) == PyOr(PyOr(r["precio_base"], r["valor_estimado"]), Num(0))

\* v[:10]
Slice10(v) ==
    CASE v.k = "str" -> Str(SubSeq(v.s, 1, IF Len(v.s) < 10 THEN Len(v.s) ELSE 10))
      [] v.k = "list" -> v
      [] OTHER -> Fault

fecha(r) ==
    LET f == Slice10(PyOr(r["fecha_de_publicacion_del"], Str(<<>>)))
    IN IF f = Fault THEN Fault ELSE PyOr(f, Str(NA))

\* the list handed to ws.append for row r
ExportRecord(r) ==
    << codigo_full(r),
       PyOr(r["estado_del_procedimiento"], Str(NA)),
       PyOr(r["entidad"], Str(NA)),
       PyOr(r["departamento_entidad"], Str(NA)),
       PyOr(r["descripci_n_del_procedimiento"], Str(NA)),
       valor(r),
       fecha(r) >>

\* ws.append raises ValueError for a cell value that is a list or a dict
AppendRaises(cells) == \E i \in 1..Len(cells) : cells[i].k \in {"list", "dict"}

RowRaises(r) ==
    \/ \E i \in 1..7 : ExportRecord(r)[i] = Fault
    \/ AppendRaises(ExportRecord(r))

\* the second try block of export_xlsx and the final return
generate(rs) ==
    IF \E i \in 1..Len(rs) : RowRaises(rs[i])
    THEN [kind |-> "http_exception", status |-> 500, data |-> <<>>]
    ELSE [kind |-> "stream", status |-> 200, data |-> Map(ExportRecord, rs)]

(***************************************************************************)
(* Inputs of the filter compiler.                                          *)
(***************************************************************************)
Alphabet == {"a", "'", ",", " ", "%", ")"}

StringsUpTo(n) == UNION {[1..k -> Alphabet] : k \in 0..n}

SomeUpTo(n) == {Some(s) : s \in StringsUpTo(n)}

\* <<codigos, estado, texto>> of the spec's examples and of injection attempts
ExtraFilters ==
    {<<Some(<<"a", ",", ",", "b">>), None, None>>,
     <<Some(<<"a", ",">>), None, None>>,
     <<Some(<<" ", ",", " ", ",">>), Some(<<>>), None>>,
     <<Some(<<"V", "1", ".", "a">>), None, None>>,
     <<Some(<<"4", "7", "1", ",", ",", " ", "V", "1", ".", "3", " ", ",", "v", "1", ".", "b", ",">>), None, None>>,
     <<Some(<<"V", "1", ".">>), Some(<<"A", "b", ",", "c", "'", "d">>), None>>,
     <<None, Some(<<"A", "d", "j", "u", "d", "i", "c", "a", "d", "o">>), None>>,
     <<None, Some(<<" ", ",", " ">>), Some(<<",", " ", ",">>)>>,
     <<None, None, Some(<<"%">>)>>,
     <<None, None, Some(<<"_">>)>>,
     <<None, None, Some(<<"%", "_", " ", "a">>)>>,
     <<None, None, Some(<<"a", "%", "_", "b", " ", "(", "O", "R", ")", " ", "'", "x">>)>>,
     <<Some(<<"a", "'", ")", " ", "O", "R", " ", "(", "'", "1", "'", "=", "'", "1">>), Some(<<"b", "'", " ", "A", "N", "D", " ", "(">>), Some(<<"c", "'", ")", " ", "-", "-">>)>>,
     <<Some(<<"(", "'", ",">>), Some(<<"'", ")", ",">>), Some(<<"'", ")">>)>>,
     <<Some(<<>>), Some(<<>>), Some(<<>>)>>}

Orden == {"recientes", "mayor_valor", "xyz"}

NoResult == [kind |-> "none", status |-> 0, data |-> <<>>]

Request(c, e, t, o, p, l) ==
    [codigos |-> c, estado |-> e, texto |-> t, orden |-> o, page |-> p, limit |-> l]

(***************************************************************************)
(* The filter compiler on its own: Init draws the inputs, Build applies    *)
(* build_where_and_order.                                                  *)
(***************************************************************************)
InitBuild ==
    /\ mode = "build"
    /\ pc = "start"
    /\ \/ \E c \in SomeUpTo(MaxTotal) :
            \E e \in SomeUpTo(MaxTotal - Len(c[1])) :
              \E t \in SomeUpTo(MaxTotal - Len(c[1]) - Len(e[1])) :
                req = Request(c, e, t, "recientes", 1, 20)
       \/ \E x \in ExtraFilters, o \in Orden :
            req = Request(x[1], x[2], x[3], o, 1, 20)
    /\ where_clause = None
    /\ order_clause = ""
    /\ fetches = <<>>
    /\ responses = <<>>
    /\ rows = <<>>
    /\ result = NoResult

Build ==
    /\ mode = "build"
    /\ pc = "start"
    /\ LET wo == build_where_and_order(req.codigos, req.estado, req.texto, req.orden)
       IN /\ where_clause' = wo.where
          /\ order_clause' = wo.order
    /\ pc' = "built"
    /\ UNCHANGED <<mode, req, fetches, responses, rows, result>>

NextBuild == Build

SpecBuild == InitBuild /\ [][NextBuild]_vars

(***************************************************************************)
(* Reading a filter expression left to right: '' inside a literal is an    *)
(* escaped quote.                                                          *)
(***************************************************************************)
\* index of the first element of D in s at or after i, 0 when there is none
NextIn(s, i, D) ==
    IF \E j \in i..Len(s) : s[j] \in D
    THEN CHOOSE j \in i..Len(s) : s[j] \in D /\ \A k \in i..(j - 1) : s[k] \notin D
    ELSE 0

RECURSIVE ScanFrom(_, _, _, _, _)
\* read s from position i; inLit says whether a literal is open, cur is the
\* content of the open literal read so far, acc the segments already closed
ScanFrom(s, i, inLit, cur, acc) ==
    LET q == NextIn(s, i, {"'"})
    IN IF q = 0
       THEN [closed |-> ~inLit,
             segs |-> acc \o <<[lit |-> inLit, text |-> cur \o SubSeq(s, i, Len(s))]>>]
       ELSE IF ~inLit
       THEN ScanFrom(s, q + 1, TRUE, <<>>,
                     acc \o <<[lit |-> FALSE, text |-> SubSeq(s, i, q - 1)]>>)
       ELSE IF q < Len(s) /\ s[q + 1] = "'"
       THEN ScanFrom(s, q + 2, TRUE, cur \o SubSeq(s, i, q - 1) \o <<"'">>, acc)
       ELSE ScanFrom(s, q + 1, FALSE, <<>>,
                     acc \o <<[lit |-> TRUE, text |-> cur \o SubSeq(s, i, q - 1)]>>)

Scan(s) == ScanFrom(s, 1, FALSE, <<>>, <<>>)

IsLit(g) == g.lit

TextOf(g) == g.text

\* the decoded contents of the literals, in order
Literals(sc) == Map(TextOf, SelectSeq(sc.segs, IsLit))

SkelOf(g) == IF g.lit THEN <<"'">> ELSE g.text

RECURSIVE Concat(_)
Concat(ss) == IF ss = <<>> THEN <<>> ELSE Head(ss) \o Concat(Tail(ss))

\* the expression with every literal replaced by a single quote mark
Skeleton(sc) == Concat(Map(SkelOf, sc.segs))

RECURSIVE Depth(_, _, _)
\* parenthesis depth after reading s from position i at depth d, -1 once it
\* went negative
Depth(s, i, d) ==
    LET q == NextIn(s, i, {"(", ")"})
    IN IF d < 0 THEN -1
       ELSE IF q = 0 THEN d
       ELSE Depth(s, q + 1, IF s[q] = "(" THEN d + 1 ELSE d - 1)

Balanced(s) == Depth(s, 1, 0) = 0

(***************************************************************************)
(* What the request asks for, read off the raw inputs by position.         *)
(***************************************************************************)
Min(S) == CHOOSE x \in S : \A y \in S : x <= y

Max(S) == CHOOSE x \in S : \A y \in S : x >= y

Bounds(s) == {0} \cup {i \in 1..Len(s) : s[i] = ","} \cup {Len(s) + 1}

NthBound(s, j) == CHOOSE b \in Bounds(s) : Cardinality({x \in Bounds(s) : x < b}) = j

RefSlots(s) ==
    [j \in 1..(Cardinality(Bounds(s)) - 1) |->
        SubSeq(s, NthBound(s, j - 1) + 1, NthBound(s, j) - 1)]

RefTrim(t) ==
    LET ns == {i \in 1..Len(t) : t[i] \notin Whitespace}
    IN IF ns = {} THEN <<>> ELSE SubSeq(t, Min(ns), Max(ns))

\* the comma-separated tokens that are non-empty after trimming
RefTokens(o) ==
    IF o = None THEN <<>>
    ELSE SelectSeq(Map(RefTrim, RefSlots(o[1])), NonEmpty)

Delims == {","} \cup Whitespace

WordStarts(s) == {i \in 1..Len(s) : s[i] \notin Delims /\ (i = 1 \/ s[i - 1] \in Delims)}

WordEnd(s, i) == Max({j \in i..Len(s) : \A k \in i..j : s[k] \notin Delims})

NthStart(s, n) == CHOOSE b \in WordStarts(s) : Cardinality({x \in WordStarts(s) : x < b}) = n - 1

\* the keywords: maximal runs of characters that are neither comma nor space
RefWords(o) ==
    IF o = None THEN <<>>
    ELSE [n \in 1..Cardinality(WordStarts(o[1])) |->
            SubSeq(o[1], NthStart(o[1], n), WordEnd(o[1], NthStart(o[1], n)))]

RefCode(t) == IF Len(t) >= 3 /\ t[1] = "V" /\ t[2] = "1" /\ t[3] = "." THEN t ELSE <<"V", "1", ".">> \o t

RefStatus(t) == [i \in 1..Len(t) |-> UpperChar(t[i])]

NotWildcard(c) == c \notin {"%", "_"}

RefPattern(t) == <<"%">> \o RefStatus(SelectSeq(t, NotWildcard)) \o <<"%">>

CategorySkeleton(k) ==
    CategoryHead \o join(CommaSep, [i \in 1..k |-> <<"'">>]) \o <<")">>

StatusSkeleton(m) ==
    StatusHead \o join(CommaSep, [i \in 1..m |-> <<"'">>]) \o <<")">>

KeywordSkeleton(n) ==
    join(AndSep, [i \in 1..n |-> <<"(">> \o LikeHead \o <<"'", ")">>])

\* category, then status, then keyword, each only when it has tokens
ExpectedSkeleton(k, m, n) ==
    join(AndSep, (IF k > 0 THEN <<CategorySkeleton(k)>> ELSE <<>>)
                 \o (IF m > 0 THEN <<StatusSkeleton(m)>> ELSE <<>>)
                 \o (IF n > 0 THEN <<KeywordSkeleton(n)>> ELSE <<>>))

Built == mode = "build" /\ pc = "built"

\* C7: a present filter expression is syntactically closed: every literal
\* that opens is closed, parentheses outside literals are balanced, and each
\* user token lies inside exactly one literal, so that what is outside the
\* literals is the fixed text written by the compiler.
C7_FilterClosed ==
    (Built /\ where_clause # None) =>
        LET sc == Scan(where_clause[1])
            codes == RefTokens(req.codigos)
            stats == RefTokens(req.estado)
            words == RefWords(req.texto)
        IN /\ sc.closed
           /\ Balanced(Skeleton(sc))
           /\ Literals(sc) = Map(RefCode, codes) \o Map(RefStatus, stats) \o Map(RefPattern, words)
           /\ Skeleton(sc) = ExpectedSkeleton(Len(codes), Len(stats), Len(words))

HasQuote(o) == o # None /\ \E i \in 1..Len(o[1]) : o[1][i] = "'"

HasParen(o) == o # None /\ \E i \in 1..Len(o[1]) : o[1][i] \in {"(", ")"}

\* a filter built from three inputs that each carry a quote and a parenthesis
C7_Witness ==
    /\ Built
    /\ where_clause # None
    /\ HasQuote(req.codigos) /\ HasQuote(req.estado) /\ HasQuote(req.texto)
    /\ HasParen(req.codigos) /\ HasParen(req.estado) /\ HasParen(req.texto)
    /\ Len(RefTokens(req.codigos)) > 0
    /\ Len(RefTokens(req.estado)) > 0
    /\ Len(RefWords(req.texto)) > 0

\* C8: the filter is the AND of the sub-clauses that have tokens, in the
\* order category, status, keyword, and is absent exactly when there is
\* none; the category sub-clause lists, in input order, one literal per
\* comma-separated token that is non-empty after trimming, prefixed with
\* V1. unless it already starts with it.
C8_Composition ==
    Built =>
        LET codes == RefTokens(req.codigos)
            stats == RefTokens(req.estado)
            words == RefWords(req.texto)
        IN /\ (where_clause = None) <=> (codes = <<>> /\ stats = <<>> /\ words = <<>>)
           /\ where_clause # None =>
                LET sc == Scan(where_clause[1])
                IN /\ Skeleton(sc) = ExpectedSkeleton(Len(codes), Len(stats), Len(words))
                   /\ Len(Literals(sc)) >= Len(codes)
                   /\ SubSeq(Literals(sc), 1, Len(codes)) = Map(RefCode, codes)

HasEmptySlot(o) == o # None /\ \E j \in 1..Len(RefSlots(o[1])) : RefTrim(RefSlots(o[1])[j]) = <<>>

\* a category list with an empty slot, one token that already has the prefix
\* and one that has not
C8_Witness ==
    /\ Built
    /\ HasEmptySlot(req.codigos)
    /\ \E i, j \in 1..Len(RefTokens(req.codigos)) :
          /\ RefCode(RefTokens(req.codigos)[i]) = RefTokens(req.codigos)[i]
          /\ RefCode(RefTokens(req.codigos)[j]) # RefTokens(req.codigos)[j]


(***************************************************************************)
(* The projector on its own: Init draws one row, Project applies the       *)
(* generation block of export_xlsx to it.                                  *)
(***************************************************************************)
Timestamp == <<"2", "0", "2", "4", "-", "0", "1", "-", "1", "5", "T", "0", "0", ":", "0", "0", ":", "0", "0">>

Values ==
    {Str(<<>>), Str(<<"x">>), Str(<<"V", "1", ".", "4", "V", "1", ".">>), Str(Timestamp),
     Num(0), Num(5), EmptyList, OneList, EmptyDict, OneDict}

EmptyRow == [f \in FieldNames |-> Absent]

\* the rows that carry the fields F
RowsWith(F) ==
    {[f \in FieldNames |-> IF f \in F THEN g[f] ELSE Absent] : g \in [F -> Values]}

FullRow ==
    [f \in FieldNames |->
        CASE f = "codigo_principal_de_categoria" -> Str(<<"V", "1", ".", "4", "7">>)
          [] f = "referencia_del_proceso" -> Str(<<"R", "1">>)
          [] f = "precio_base" -> Num(7)
          [] f = "valor_estimado" -> Num(5)
          [] f = "fecha_de_publicacion_del" -> Str(Timestamp)
          [] OTHER -> Str(<<"x">>)]

InitProject ==
    /\ mode = "project"
    /\ pc = "start"
    /\ req = Request(None, None, None, "recientes", 1, 20)
    /\ where_clause = None
    /\ order_clause = ""
    /\ fetches = <<>>
    /\ responses = <<>>
    /\ \/ \E F \in SUBSET FieldNames :
            /\ Cardinality(F) <= MaxPresent
            /\ \E r \in RowsWith(F) : rows = <<r>>
       \/ rows = <<FullRow>>
    /\ result = NoResult

Project ==
    /\ mode = "project"
    /\ pc = "start"
    /\ result' = generate(rows)
    /\ pc' = "projected"
    /\ UNCHANGED <<mode, req, where_clause, order_clause, fetches, responses, rows>>

NextProject == Project

SpecProject == InitProject /\ [][NextProject]_vars

Projected == mode = "project" /\ pc = "projected"

\* C5: a row in which every field is absent is exported as the record
\* N/A, N/A, N/A, N/A, N/A, 0, N/A.
C5_AllAbsentRow ==
    (Projected /\ rows = <<EmptyRow>>) =>
        /\ result.kind = "stream"
        /\ result.data = << <<Str(NA), Str(NA), Str(NA), Str(NA), Str(NA), Num(0), Str(NA)>> >>

IsNested(v) == v.k \in {"list", "dict"}

PassThrough ==
    <<"estado_del_procedimiento", "entidad", "departamento_entidad",
      "descripci_n_del_procedimiento">>

\* C6: a row with a list or mapping in a projected field still yields the
\* artifact, the nested value written as its textual form.
C6_NestedRendered ==
    (Projected /\ \E f \in FieldNames : IsNested(rows[1][f])) =>
        /\ result.kind = "stream"
        /\ \A i \in 1..4 :
              IsNested(rows[1][PassThrough[i]]) =>
                  result.data[1][i + 1] = _to_cell(rows[1][PassThrough[i]])

NumberOrAbsent(v) == v.k \in {"num", "none"}

\* C9: the exported Value is the base price if it is present, else the
\* estimated value if it is present, else zero, and is a number (stated for
\* rows whose two price fields are numbers or absent).
C9_ValueFallback ==
    (/\ Projected
     /\ result.kind = "stream"
     /\ NumberOrAbsent(rows[1]["precio_base"])
     /\ NumberOrAbsent(rows[1]["valor_estimado"])) =>
        /\ result.data[1][6].k = "num"
        /\ result.data[1][6] =
              IF rows[1]["precio_base"] # Absent THEN rows[1]["precio_base"]
              ELSE IF rows[1]["valor_estimado"] # Absent THEN rows[1]["valor_estimado"]
              ELSE Num(0)


(***************************************************************************)
(* The two request handlers.  A handler runs up to its network call, the   *)
(* remote service answers, and the handler runs on from the answer.        *)
(***************************************************************************)
\* <<codigos, estado, texto>> of the requests
Filters ==
    {<<None, None, None>>,
     <<Some(<<>>), Some(<<>>), Some(<<>>)>>,
     <<Some(<<" ", ",">>), None, Some(<<",", " ">>)>>,
     <<Some(<<"4", "7", "1", ",", "V", "1", ".", "3">>), None, None>>,
     <<None, Some(<<"A", "b">>), None>>,
     <<None, None, Some(<<"a", "'", "b", " ", "c">>)>>,
     <<Some(<<"a">>), Some(<<"b">>), Some(<<"c">>)>>,
     <<None, None, Some(<<"%">>)>>,
     <<None, Some(<<>>), Some(<<"_", "%">>)>>}

Limits == {1, 20}

NestedRow ==
    [f \in FieldNames |-> IF f = "entidad" THEN OneDict ELSE Absent]

SampleRows == {EmptyRow, FullRow, NestedRow}

RowsUpTo(n) == UNION {[1..k -> SampleRows] : k \in 0..n}

\* requests.get raised: connection error or timeout
NetworkError == [kind |-> "error", status |-> 0, json |-> FALSE, rows |-> <<>>]

\* a response whose body resp.json() decodes to the list rs
JsonResponse(st, rs) == [kind |-> "http", status |-> st, json |-> TRUE, rows |-> rs]

\* a response whose body is not the list of rows (empty, or an error page)
OtherResponse(st) == [kind |-> "http", status |-> st, json |-> FALSE, rows |-> <<>>]

Responses ==
    {NetworkError}
    \cup {JsonResponse(st, rs) : st \in {200, 300}, rs \in RowsUpTo(MaxRows)}
    \cup {OtherResponse(st) : st \in {200, 204, 304, 400, 404, 422, 500}}

Idle ==
    /\ mode = "idle"
    /\ pc = "idle"
    /\ req = Request(None, None, None, "recientes", 1, 20)
    /\ where_clause = None
    /\ order_clause = ""
    /\ fetches = <<>>
    /\ responses = <<>>
    /\ rows = <<>>
    /\ result = NoResult

Init == Idle

\* a slip that queries whatever the filter
ShouldQuery_always(w) == TRUE

\* `if where_clause:` of home
ShouldQuery(w) == Truthy(w)

\* params of home; requests leaves a key whose value is None out of the query
HomeParams(limit, offset, order, w) ==
    [k \in {"$limit", "$offset", "$order"} \cup (IF w # None THEN {"$where"} ELSE {}) |->
        CASE k = "$limit" -> limit
          [] k = "$offset" -> offset
          [] k = "$order" -> order
          [] k = "$where" -> w[1]]

\* params of export_xlsx: $where only `if where_clause:`
ExportParams(limit, offset, order, w) ==
    [k \in {"$limit", "$offset", "$order"} \cup (IF Truthy(w) THEN {"$where"} ELSE {}) |->
        CASE k = "$limit" -> limit
          [] k = "$offset" -> offset
          [] k = "$order" -> order
          [] k = "$where" -> w[1]]

\* a slip that retries with the same parameters
pop_order_kept(params) == params

\* params.pop("$order", None)
pop_order(params) == [k \in (DOMAIN params) \ {"$order"} |-> params[k]]

\* `resp.status_code in (400, 422)`
IsRejection(r) == r.kind = "http" /\ r.status \in {400, 422}

\* resp.raise_for_status() raises for 4xx and 5xx
RaisesForStatus(r) == r.status >= 400 /\ r.status < 600

\* a slip that takes the body of any decodable response
HomeOutcome_any_status(r) ==
    IF r.kind = "error" THEN [kind |-> "raise", status |-> 500, data |-> <<>>]
    ELSE IF r.json THEN [kind |-> "page", status |-> 200, data |-> r.rows]
    ELSE [kind |-> "page", status |-> 200, data |-> <<>>]

\* home from the return of requests.get to the template response; an
\* exception of requests.get or of resp.json() is not caught
HomeOutcome(r) ==
    IF r.kind = "error" THEN [kind |-> "raise", status |-> 500, data |-> <<>>]
    ELSE IF r.status = 200
    THEN IF r.json THEN [kind |-> "page", status |-> 200, data |-> r.rows]
         ELSE [kind |-> "raise", status |-> 500, data |-> <<>>]
    ELSE [kind |-> "page", status |-> 200, data |-> <<>>]

\* export_xlsx from the final response to its result
ExportOutcome(r) ==
    IF r.kind = "error" \/ RaisesForStatus(r) \/ ~r.json
    THEN [kind |-> "http_exception", status |-> 502, data |-> <<>>]
    ELSE IF r.rows = <<>>
    THEN [kind |-> "http_exception", status |-> 204, data |-> <<>>]
    ELSE generate(r.rows)

HomeStart(c, e, t, o, p) ==
    /\ pc = "idle"
    /\ LET limit == 20
           offset == (p - 1) * limit
           wo == build_where_and_order(c, e, t, o)
       IN /\ mode' = "home"
          /\ req' = Request(c, e, t, o, p, limit)
          /\ where_clause' = wo.where
          /\ order_clause' = wo.order
          /\ IF ShouldQuery(wo.where)
             THEN /\ fetches' = <<HomeParams(limit, offset, wo.order, wo.where)>>
                  /\ pc' = "home_get"
                  /\ result' = result
             ELSE /\ fetches' = <<>>
                  /\ pc' = "done"
                  /\ result' = [kind |-> "page", status |-> 200, data |-> <<>>]
    /\ UNCHANGED <<responses, rows>>

HomeResponse(r) ==
    /\ pc = "home_get"
    /\ responses' = Append(responses, r)
    /\ result' = HomeOutcome(r)
    /\ rows' = result'.data
    /\ pc' = "done"
    /\ UNCHANGED <<mode, req, where_clause, order_clause, fetches>>

ExportStart(c, e, t, o, p, l) ==
    /\ pc = "idle"
    /\ LET offset == (p - 1) * l
           wo == build_where_and_order(c, e, t, o)
       IN /\ mode' = "export"
          /\ req' = Request(c, e, t, o, p, l)
          /\ where_clause' = wo.where
          /\ order_clause' = wo.order
          /\ fetches' = <<ExportParams(l, offset, wo.order, wo.where)>>
    /\ pc' = "export_get1"
    /\ UNCHANGED <<responses, rows, result>>

ExportResponse1(r) ==
    /\ pc = "export_get1"
    /\ responses' = Append(responses, r)
    /\ IF IsRejection(r)
       THEN /\ fetches' = Append(fetches, pop_order(fetches[1]))
            /\ pc' = "export_get2"
            /\ UNCHANGED <<rows, result>>
       ELSE /\ result' = ExportOutcome(r)
            /\ rows' = (IF result'.status = 502 THEN <<>> ELSE r.rows)
            /\ pc' = "done"
            /\ UNCHANGED fetches
    /\ UNCHANGED <<mode, req, where_clause, order_clause>>

ExportResponse2(r) ==
    /\ pc = "export_get2"
    /\ responses' = Append(responses, r)
    /\ result' = ExportOutcome(r)
    /\ rows' = (IF result'.status = 502 THEN <<>> ELSE r.rows)
    /\ pc' = "done"
    /\ UNCHANGED <<mode, req, where_clause, order_clause, fetches>>

\* the handler has returned; nothing is kept between requests
Return ==
    /\ pc = "done"
    /\ mode' = "idle"
    /\ pc' = "idle"
    /\ req' = Request(None, None, None, "recientes", 1, 20)
    /\ where_clause' = None
    /\ order_clause' = ""
    /\ fetches' = <<>>
    /\ responses' = <<>>
    /\ rows' = <<>>
    /\ result' = NoResult

Next ==
    \/ \E x \in Filters, o \in Orden, p \in 1..MaxPage :
          HomeStart(x[1], x[2], x[3], o, p)
    \/ \E r \in Responses : HomeResponse(r)
    \/ \E x \in Filters, o \in Orden, p \in 1..MaxPage, l \in Limits :
          ExportStart(x[1], x[2], x[3], o, p, l)
    \/ \E r \in Responses : ExportResponse1(r)
    \/ \E r \in Responses : ExportResponse2(r)
    \/ Return

Spec == Init /\ [][Next]_vars


(***************************************************************************)
(* Properties of the handlers.                                             *)
(***************************************************************************)
SameExceptOrder(p1, p2) ==
    /\ DOMAIN p2 = (DOMAIN p1) \ {"$order"}
    /\ \A k \in DOMAIN p2 : p2[k] = p1[k]

\* C1: an export request whose first fetch is answered 400 or 422 issues
\* exactly one further fetch, without $order and with the same $where (or
\* absence of it), $limit and $offset; a second rejection ends the request
\* in a fetch failure; any other first answer is followed by no second
\* fetch; a fetch is issued only once the previous one was answered, and
\* there are never more than two.
C1_ExportRetry ==
    mode = "export" =>
        /\ Len(fetches) <= 2
        /\ Len(responses) <= Len(fetches)
        /\ Len(fetches) <= Len(responses) + 1
        /\ "$order" \in DOMAIN fetches[1]
        /\ (Len(responses) >= 1 /\ responses[1].kind = "http" /\ responses[1].status \in {400, 422}) =>
              /\ Len(fetches) = 2
              /\ "$order" \notin DOMAIN fetches[2]
              /\ SameExceptOrder(fetches[1], fetches[2])
        /\ (Len(responses) >= 1 /\ ~(responses[1].kind = "http" /\ responses[1].status \in {400, 422})) =>
              Len(fetches) = 1
        /\ (Len(responses) = 2 /\ responses[2].kind = "http" /\ responses[2].status \in {400, 422}) =>
              /\ pc = "done"
              /\ result.kind = "http_exception"
              /\ result.status = 502

\* an export request rejected twice, with a filter in both fetches
C1_Witness ==
    /\ mode = "export"
    /\ pc = "done"
    /\ Len(fetches) = 2
    /\ Len(responses) = 2
    /\ responses[1].status = 400
    /\ responses[2].status = 422
    /\ "$where" \in DOMAIN fetches[2]

\* C2: with an absent filter expression home issues no fetch and returns an
\* empty result set, while export_xlsx still issues a fetch that carries
\* $order, $limit and $offset and no $where; home issues a fetch only when
\* the filter expression is present.
C2_NoFilterDivergence ==
    /\ (mode = "home" /\ where_clause = None) =>
          /\ fetches = <<>>
          /\ pc = "done"
          /\ result.kind = "page"
          /\ result.data = <<>>
    /\ (mode = "export" /\ where_clause = None) =>
          /\ Len(fetches) >= 1
          /\ DOMAIN fetches[1] = {"$order", "$limit", "$offset"}
          /\ fetches[1]["$limit"] = req.limit
          /\ fetches[1]["$offset"] = (req.page - 1) * req.limit
          /\ fetches[1]["$order"] = order_clause
    /\ (mode = "home" /\ fetches # <<>>) =>
          /\ where_clause # None
          /\ fetches[1]["$where"] = where_clause[1]

\* an export request without filter that got its rows
C2_Witness ==
    /\ mode = "export"
    /\ where_clause = None
    /\ pc = "done"
    /\ result.kind = "stream"

LastResponse == responses[Len(responses)]

FetchFailed(r) == r.kind = "error" \/ r.status < 200 \/ r.status >= 300

\* C3: an export request ends in exactly one of: the artifact, only when
\* the final fetch succeeded with at least one row; 502 whenever the final
\* fetch is a network error, a timeout or a non-2xx status; 'nothing to
\* export' (204) whenever the fetch succeeded with zero rows; 500 when
\* building the spreadsheet faults.
C3_ExportOutcomes ==
    (mode = "export" /\ pc = "done") =>
        /\ \/ result.kind = "stream" /\ result.status = 200
           \/ result.kind = "http_exception" /\ result.status \in {502, 204, 500}
        /\ result.kind = "stream" =>
              /\ ~FetchFailed(LastResponse)
              /\ LastResponse.json
              /\ LastResponse.rows # <<>>
              /\ Len(result.data) = Len(LastResponse.rows)
        /\ FetchFailed(LastResponse) => result.status = 502
        /\ (~FetchFailed(LastResponse) /\ LastResponse.json /\ LastResponse.rows = <<>>) =>
              result.status = 204
        /\ result.status = 500 =>
              /\ ~FetchFailed(LastResponse)
              /\ \E i \in 1..Len(LastResponse.rows) : RowRaises(LastResponse.rows[i])

\* C4: a home request whose fetch is answered with a status other than 200
\* completes with an empty result set, the failure is not propagated, and
\* no second fetch is issued; a home request issues at most one fetch.
C4_HomeNoData ==
    mode = "home" =>
        /\ Len(fetches) <= 1
        /\ Len(responses) <= Len(fetches)
        /\ (Len(responses) = 1 /\ responses[1].kind = "http" /\ responses[1].status # 200) =>
              /\ pc = "done"
              /\ result.kind = "page"
              /\ result.data = <<>>
              /\ rows = <<>>

\* a home request whose only fetch was answered 400 or 422
C4_Witness ==
    /\ mode = "home"
    /\ pc = "done"
    /\ Len(fetches) = 1
    /\ Len(responses) = 1
    /\ responses[1].kind = "http"
    /\ responses[1].status \in {400, 422}

OnlyWildcards(o) ==
    /\ o # None
    /\ o[1] # <<>>
    /\ \A i \in 1..Len(o[1]) : o[1][i] \in {"%", "_"}

EndsWith(s, t) == Len(s) >= Len(t) /\ SubSeq(s, Len(s) - Len(t) + 1, Len(s)) = t

\* the literals of expression e that directly follow LIKE
LikePatterns(e) ==
    LET segs == Scan(e).segs
    IN {segs[i].text : i \in {j \in 2..Len(segs) :
                                  segs[j].lit /\ EndsWith(segs[j - 1].text, LikeHead)}}

\* C10: whenever home issues a fetch, every keyword pattern of its $where
\* has a non-empty term between the two % wildcards; a texto made only of
\* wildcard characters, with codigos and estado empty, results in no fetch
\* and an empty result set.
C10_NoEmptyPattern ==
    mode = "home" =>
        /\ fetches # <<>> =>
              \A pat \in LikePatterns(fetches[1]["$where"]) : Len(pat) > 2
        /\ (OnlyWildcards(req.texto) /\ ~Truthy(req.codigos) /\ ~Truthy(req.estado)) =>
              /\ fetches = <<>>
              /\ pc = "done" => (result.kind = "page" /\ result.data = <<>>)

====
